---- MODULE Spec2Model ----
(***************************************************************************)
(* Model of component/dialer/dialer.go: one DialContext call, from option  *)
(* application through name resolution and strategy dispatch to the serial,*)
(* parallel and dual-stack racers, interleaved with SetTcpConcurrent.      *)
(*                                                                         *)
(* An address is identified by its index in ips; ips[i] is its family      *)
(* (4 or 6).  The connection opened to address i is identified by i, and   *)
(* 0 stands for a nil net.Conn.  Whether a connect succeeds is decided by  *)
(* the network when the attempt completes.                                 *)
(***************************************************************************)
EXTENDS Integers, Sequences, FiniteSets, TLC

\* Largest number of addresses the resolver returns for the host.
MaxAddrs == 2

\* Network tokens a caller may pass; the last two are outside the valid set.
Networks == {"tcp", "tcp4", "tcp6", "udp", "udp4", "udp6", "ip", "tcpx"}

\* Instances of a per-list dial function: the one called directly by the
\* strategy entry point, and the ones called by the two dual-stack racers.
Insts == {"top", "g4", "g6"}

Groups == {"g4", "g6"}

VARIABLES
    token,          \* network argument of DialContext as passed by the caller
    optNetwork,     \* opt.network (0 unset, 4 or 6 forced single stack)
    prefer,         \* opt.prefer  (0 unset, 4 or 6)
    tcpConcurrent,  \* package variable tcpConcurrent
    actualSingleStackDialContext,   \* "serial" or "concurrent"
    actualDualStackDialContext,     \* "serial" or "concurrent"
    pc,             \* position of DialContext
    network,        \* local variable network of DialContext
    ips,            \* candidate list returned by parseAddr
    startMode,      \* tcpConcurrent when the call began (history)
    strategy,       \* strategy function the call runs under
    ret,            \* value returned by DialContext
    ikind,          \* per instance: "none", "serial" or "parallel"
    ilist,          \* per instance: the ips argument (indices into ips)
    ipc,            \* per instance: "idle", "run" or "ret"
    ierrs,          \* per instance: errs, as the addresses whose errors it holds
    iattempts,      \* per serial instance: addresses dialled so far, in order (history)
    iret,           \* per instance: returned (conn, err)
    att,            \* per address: state of its attempt
    conn,           \* per address: "none", "open", "closed" or "failed"
    closes,         \* per address: number of Close calls on its connection
    dpc,            \* dualStackDialContext coordinator: "idle", "run" or "ret"
    fallback,       \* fallback.Conn (0 when nil)
    derrs,          \* errs of dualStackDialContext, as the groups whose errors it holds
    grp,            \* per family racer: "none", "dialing", "done", "sent", "dropped"
    isPrimary,      \* per family racer: its isPrimary flag
    resultsClosed,  \* results channel of dualStackDialContext closed
    gdone,          \* family racers in the order their dialFn returned (history)
    drecv           \* family racers in the order the select loop received them (history)

inputs  == <<token, optNetwork, prefer>>
globals == <<tcpConcurrent, actualSingleStackDialContext,
             actualDualStackDialContext>>
callv   == <<pc, network, ips, startMode, strategy, ret>>
instv   == <<ikind, ilist, ipc, ierrs, iattempts, iret>>
addrv   == <<att, conn, closes>>
dualv   == <<dpc, fallback, derrs, grp, isPrimary, resultsClosed, gdone,
             drecv>>
vars    == <<inputs, globals, callv, instv, addrv, dualv>>

----------------------------------------------------------------------------
\* Error values.

Nil == [kind |-> "nil", parts |-> <<>>]

ErrorNoIpAddress == [kind |-> "ErrorNoIpAddress", parts |-> <<>>]

ErrorInvalidedNetworkStack == [kind |-> "ErrorInvalidedNetworkStack", parts |-> <<>>]

ErrDeadlineExceeded == [kind |-> "ErrDeadlineExceeded", parts |-> <<>>]

AddressParseError == [kind |-> "AddressParseError", parts |-> <<>>]

DnsResolveFailed == [kind |-> "DnsResolveFailed", parts |-> <<>>]

\* errors.Join: nil when there is nothing to join.
Join(errs) == IF errs = <<>> THEN Nil ELSE [kind |-> "join", parts |-> errs]

NoRet == [conn |-> 0, err |-> Nil]

AllSeqs(S, n) == UNION {[1..k -> S] : k \in 0..n}

Addrs == 1..MaxAddrs

----------------------------------------------------------------------------
\* Pure helpers of DialContext and parseAddr.

\* strings.Contains(network, "tcp")
ContainsTcp(n) == n \in {"tcp", "tcp4", "tcp6", "tcpx"}

\* fmt.Sprintf("%s%d", base, family)
Sprintf(base, family) ==
    IF base = "tcp" THEN (IF family = 4 THEN "tcp4" ELSE "tcp6")
                    ELSE (IF family = 4 THEN "udp4" ELSE "udp6")

\* Mutant: the forced stack does not rewrite the token.
RewriteNetworkKept(n, forced) == n


\* The network token after the forced single-stack rewrite.
RewriteNetwork(n, forced) ==
    IF forced = 4 \/ forced = 6
    THEN Sprintf(IF ContainsTcp(n) THEN "tcp" ELSE "udp", forced)
    ELSE n

\* Indices of the addresses of family f in list l, in order.
RECURSIVE Pick(_, _, _)
Pick(l, f, from) ==
    IF from > Len(l) THEN <<>>
    ELSE (IF l[from] = f THEN <<from>> ELSE <<>>) \o Pick(l, f, from + 1)

\* resolver.SortationAddr: split the list into its IPv4 and IPv6 addresses.
SortationAddr(l) == [g4 |-> Pick(l, 4, 1), g6 |-> Pick(l, 6, 1)]

\* Mutant: every lookup answers with addresses of both families.
LookupFamiliesAny(n) == {4, 6}


\* The address families the lookup parseAddr selects for a network token
\* may answer with: LookupIPv4..., LookupIPv6... or LookupIP...
LookupFamilies(n) ==
    IF n \in {"tcp4", "udp4"} THEN {4}
    ELSE IF n \in {"tcp6", "udp6"} THEN {6}
    ELSE {4, 6}

Indices(l) == [k \in 1..Len(l) |-> k]

\* The function behind actualSingleStackDialContext.
SingleStackStrategy(mode) ==
    IF mode = "serial" THEN "serial" ELSE "parallel"

\* Mutant: concurrent mode always splits by family.
DualStackStrategyAlwaysSplit(mode, pref) ==
    IF mode = "serial" THEN "dualSerial" ELSE "dualParallel"


\* The function behind actualDualStackDialContext, given opt.prefer.
DualStackStrategy(mode, pref) ==
    IF mode = "serial" THEN "dualSerial"
    ELSE IF pref # 4 /\ pref # 6 THEN "parallel"
    ELSE "dualParallel"

\* The switch of DialContext.
SelectStrategy(n, single, dual, pref) ==
    IF n \in {"tcp4", "tcp6", "udp4", "udp6"} THEN SingleStackStrategy(single)
    ELSE IF n \in {"tcp", "udp"} THEN DualStackStrategy(dual, pref)
    ELSE "invalid"

Range(l) == {l[k] : k \in 1..Len(l)}

----------------------------------------------------------------------------
Init ==
    /\ token \in Networks
    /\ optNetwork \in {0, 4, 6}
    /\ prefer \in {0, 4, 6}
    /\ tcpConcurrent = FALSE
    /\ actualSingleStackDialContext = "serial"
    /\ actualDualStackDialContext = "serial"
    /\ pc = "start"
    /\ network = token
    /\ ips = <<>>
    /\ startMode = FALSE
    /\ strategy = "none"
    /\ ret = NoRet
    /\ ikind = [p \in Insts |-> "none"]
    /\ ilist = [p \in Insts |-> <<>>]
    /\ ipc = [p \in Insts |-> "idle"]
    /\ ierrs = [p \in Insts |-> <<>>]
    /\ iattempts = [p \in Insts |-> <<>>]
    /\ iret = [p \in Insts |-> NoRet]
    /\ att = [i \in Addrs |-> "idle"]
    /\ conn = [i \in Addrs |-> "none"]
    /\ closes = [i \in Addrs |-> 0]
    /\ dpc = "idle"
    /\ fallback = 0
    /\ derrs = <<>>
    /\ grp = [g \in Groups |-> "none"]
    /\ isPrimary = [g \in Groups |-> FALSE]
    /\ resultsClosed = FALSE
    /\ gdone = <<>>
    /\ drecv = <<>>

\* Mutant: the dual-stack strategy variable is not swapped.
SetTcpConcurrentSingleOnly(concurrent) ==
    /\ tcpConcurrent' = concurrent
    /\ actualSingleStackDialContext' = IF concurrent THEN "concurrent" ELSE "serial"
    /\ actualDualStackDialContext' = actualDualStackDialContext
    /\ UNCHANGED <<inputs, callv, instv, addrv, dualv>>

\* SetTcpConcurrent(concurrent), under dialMux.  DialContext reads one of the
\* two strategy variables, once and without the lock; that read sees the
\* value from before or from after the swap, which is what one atomic step
\* here, taken before or after Dispatch, gives.
SetTcpConcurrent(concurrent) ==
    /\ tcpConcurrent' = concurrent
    /\ actualSingleStackDialContext' = IF concurrent THEN "concurrent" ELSE "serial"
    /\ actualDualStackDialContext' = IF concurrent THEN "concurrent" ELSE "serial"
    /\ UNCHANGED <<inputs, callv, instv, addrv, dualv>>

\* DialContext, entry: applyOptions and the forced single-stack rewrite.
ApplyOptions ==
    /\ pc = "start"
    /\ pc' = "parse"
    /\ network' = RewriteNetwork(token, optNetwork)
    /\ startMode' = tcpConcurrent
    /\ UNCHANGED <<ips, strategy, ret>>
    /\ UNCHANGED <<inputs, globals, instv, addrv, dualv>>

\* DialContext: parseAddr and its error return.  The address may not split
\* into host and port, the lookup may fail, or it answers with a list (which
\* may be empty) of addresses of the families it was asked for.
ParseAddr ==
    /\ pc = "parse"
    /\ \/ /\ pc' = "done"
          /\ ret' = [conn |-> 0, err |-> AddressParseError]
          /\ ips' = ips
       \/ /\ pc' = "done"
          /\ ret' = [conn |-> 0, err |-> DnsResolveFailed]
          /\ ips' = ips
       \/ /\ pc' = "dispatch"
          /\ ret' = ret
          /\ ips' \in AllSeqs(LookupFamilies(network), MaxAddrs)
    /\ UNCHANGED <<network, startMode, strategy>>
    /\ UNCHANGED <<inputs, globals, instv, addrv, dualv>>

----------------------------------------------------------------------------
\* Entry of the strategy functions, up to their first blocking point.

\* serialDialContext / parallelDialContext called by a single-stack entry
\* point (or by concurrentDualStackDialContext without a preference): the
\* empty-list check, and for parallelDialContext the launch of one racer
\* per address.
PerListStart(kind) ==
    /\ pc' = "racing"
    /\ ret' = ret
    /\ ikind' = [ikind EXCEPT !["top"] = kind]
    /\ ilist' = [ilist EXCEPT !["top"] = Indices(ips)]
    /\ ipc' = [ipc EXCEPT !["top"] = "run"]
    /\ att' = [i \in Addrs |->
                 IF kind = "parallel" /\ i <= Len(ips) THEN "dialing" ELSE att[i]]
    /\ UNCHANGED <<ierrs, iattempts, iret, conn, closes, dualv>>

\* Mutant: the len(ips) == 0 check is missing, so the loops run zero times
\* and the code after them returns.
PerListEntryNoCheck(kind) ==
    IF Len(ips) = 0
    THEN /\ pc' = "done"
         /\ ret' = [conn |-> 0,
                    err |-> IF kind = "serial" THEN Join(<<>>) ELSE ErrDeadlineExceeded]
         /\ UNCHANGED <<instv, addrv, dualv>>
    ELSE PerListStart(kind)

PerListEntry(kind) ==
    IF Len(ips) = 0
    THEN /\ pc' = "done"
         /\ ret' = [conn |-> 0, err |-> ErrorNoIpAddress]
         /\ UNCHANGED <<instv, addrv, dualv>>
    ELSE PerListStart(kind)

\* Mutant: under a preference neither family racer is primary.
DualStackEntryBothFallback(dialFn) ==
    LET split == SortationAddr(ips) IN
    IF Len(split.g4) = 0 /\ Len(split.g6) = 0
    THEN /\ pc' = "done"
         /\ ret' = [conn |-> 0, err |-> ErrorNoIpAddress]
         /\ UNCHANGED <<instv, addrv, dualv>>
    ELSE /\ pc' = "racing"
         /\ ret' = ret
         /\ dpc' = "run"
         /\ isPrimary' = [g \in Groups |-> prefer # 4 /\ prefer # 6]
         /\ grp' = [g \in Groups |-> IF Len(split[g]) # 0 THEN "dialing" ELSE "none"]
         /\ ikind' = [p \in Insts |->
                        IF p \in Groups /\ Len(split[p]) # 0 THEN dialFn ELSE ikind[p]]
         /\ ilist' = [p \in Insts |-> IF p \in Groups THEN split[p] ELSE ilist[p]]
         /\ ipc' = [p \in Insts |->
                      IF p \in Groups /\ Len(split[p]) # 0 THEN "run" ELSE ipc[p]]
         /\ att' = [i \in Addrs |->
                      IF dialFn = "parallel" /\ i <= Len(ips) THEN "dialing" ELSE att[i]]
         /\ UNCHANGED <<ierrs, iattempts, iret, conn, closes,
                        fallback, derrs, resultsClosed, gdone, drecv>>


\* Mutant: a family racer is primary only when its family is the preferred
\* one.
DualStackEntryPreferredOnly(dialFn) ==
    LET split == SortationAddr(ips) IN
    IF Len(split.g4) = 0 /\ Len(split.g6) = 0
    THEN /\ pc' = "done"
         /\ ret' = [conn |-> 0, err |-> ErrorNoIpAddress]
         /\ UNCHANGED <<instv, addrv, dualv>>
    ELSE /\ pc' = "racing"
         /\ ret' = ret
         /\ dpc' = "run"
         /\ isPrimary' = [g \in Groups |-> IF g = "g4" THEN prefer = 4 ELSE prefer = 6]
         /\ grp' = [g \in Groups |-> IF Len(split[g]) # 0 THEN "dialing" ELSE "none"]
         /\ ikind' = [p \in Insts |->
                        IF p \in Groups /\ Len(split[p]) # 0 THEN dialFn ELSE ikind[p]]
         /\ ilist' = [p \in Insts |-> IF p \in Groups THEN split[p] ELSE ilist[p]]
         /\ ipc' = [p \in Insts |->
                      IF p \in Groups /\ Len(split[p]) # 0 THEN "run" ELSE ipc[p]]
         /\ att' = [i \in Addrs |->
                      IF dialFn = "parallel" /\ i <= Len(ips) THEN "dialing" ELSE att[i]]
         /\ UNCHANGED <<ierrs, iattempts, iret, conn, closes,
                        fallback, derrs, resultsClosed, gdone, drecv>>


\* dualStackDialContext up to its select loop: the split, the empty check,
\* and the launch of one racer per nonempty family, each calling dialFn.
DualStackEntry(dialFn) ==
    LET split == SortationAddr(ips) IN
    IF Len(split.g4) = 0 /\ Len(split.g6) = 0
    THEN /\ pc' = "done"
         /\ ret' = [conn |-> 0, err |-> ErrorNoIpAddress]
         /\ UNCHANGED <<instv, addrv, dualv>>
    ELSE /\ pc' = "racing"
         /\ ret' = ret
         /\ dpc' = "run"
         /\ isPrimary' = [g \in Groups |-> IF g = "g4" THEN prefer # 6 ELSE prefer # 4]
         /\ grp' = [g \in Groups |-> IF Len(split[g]) # 0 THEN "dialing" ELSE "none"]
         /\ ikind' = [p \in Insts |->
                        IF p \in Groups /\ Len(split[p]) # 0 THEN dialFn ELSE ikind[p]]
         /\ ilist' = [p \in Insts |-> IF p \in Groups THEN split[p] ELSE ilist[p]]
         /\ ipc' = [p \in Insts |->
                      IF p \in Groups /\ Len(split[p]) # 0 THEN "run" ELSE ipc[p]]
         /\ att' = [i \in Addrs |->
                      IF dialFn = "parallel" /\ i <= Len(ips) THEN "dialing" ELSE att[i]]
         /\ UNCHANGED <<ierrs, iattempts, iret, conn, closes,
                        fallback, derrs, resultsClosed, gdone, drecv>>

\* DialContext: the switch on network, reading the strategy variables.
Dispatch ==
    /\ pc = "dispatch"
    /\ LET s == SelectStrategy(network, actualSingleStackDialContext,
                               actualDualStackDialContext, prefer) IN
       /\ strategy' = s
       /\ \/ /\ s = "invalid"
             /\ pc' = "done"
             /\ ret' = [conn |-> 0, err |-> ErrorInvalidedNetworkStack]
             /\ UNCHANGED <<instv, addrv, dualv>>
          \/ /\ s \in {"serial", "parallel"}
             /\ PerListEntry(s)
          \/ /\ s \in {"dualSerial", "dualParallel"}
             /\ DualStackEntry(IF s = "dualSerial" THEN "serial" ELSE "parallel")
    /\ UNCHANGED <<network, ips, startMode, inputs, globals>>

----------------------------------------------------------------------------
\* Return of a per-list dial function: to DialContext's caller for the top
\* instance, into the family racer's result for a group instance.
InstReturn(p, r) ==
    /\ ipc' = [ipc EXCEPT ![p] = "ret"]
    /\ iret' = [iret EXCEPT ![p] = r]
    /\ IF p = "top"
       THEN pc' = "done" /\ ret' = r /\ grp' = grp /\ gdone' = gdone
       ELSE /\ pc' = pc /\ ret' = ret
            /\ grp' = [grp EXCEPT ![p] = "done"]
            /\ gdone' = Append(gdone, p)

InstContinue ==
    UNCHANGED <<ipc, iret, pc, ret, grp, gdone>>

\* Mutant: the loop walks ips from its end.
SerialDialContextReversed(p) ==
    /\ ikind[p] = "serial"
    /\ ipc[p] = "run"
    /\ LET i == ilist[p][Len(ilist[p]) - Len(iattempts[p])] IN
       \E ok \in BOOLEAN :
          /\ iattempts' = [iattempts EXCEPT ![p] = Append(@, i)]
          /\ att' = [att EXCEPT ![i] = "sent"]
          /\ IF ok
             THEN /\ conn' = [conn EXCEPT ![i] = "open"]
                  /\ ierrs' = ierrs
                  /\ InstReturn(p, [conn |-> i, err |-> Nil])
             ELSE /\ conn' = [conn EXCEPT ![i] = "failed"]
                  /\ ierrs' = [ierrs EXCEPT ![p] = Append(@, i)]
                  /\ IF Len(iattempts'[p]) = Len(ilist[p])
                     THEN InstReturn(p, [conn |-> 0, err |-> Join(ierrs'[p])])
                     ELSE InstContinue
    /\ UNCHANGED <<ikind, ilist, closes>>
    /\ UNCHANGED <<inputs, globals, network, ips, startMode, strategy>>
    /\ UNCHANGED <<dpc, fallback, derrs, isPrimary, resultsClosed, drecv>>

\* serialDialContext: one iteration of the loop over ips.  The chain is not
\* cancelled when dualStackDialContext returns, so it runs on after it.
SerialDialContext(p) ==
    /\ ikind[p] = "serial"
    /\ ipc[p] = "run"
    /\ LET i == ilist[p][Len(iattempts[p]) + 1] IN
       \E ok \in BOOLEAN :
          /\ iattempts' = [iattempts EXCEPT ![p] = Append(@, i)]
          /\ att' = [att EXCEPT ![i] = "sent"]
          /\ IF ok
             THEN /\ conn' = [conn EXCEPT ![i] = "open"]
                  /\ ierrs' = ierrs
                  /\ InstReturn(p, [conn |-> i, err |-> Nil])
             ELSE /\ conn' = [conn EXCEPT ![i] = "failed"]
                  /\ ierrs' = [ierrs EXCEPT ![p] = Append(@, i)]
                  /\ IF Len(iattempts'[p]) = Len(ilist[p])
                     THEN InstReturn(p, [conn |-> 0, err |-> Join(ierrs'[p])])
                     ELSE InstContinue
    /\ UNCHANGED <<ikind, ilist, closes>>
    /\ UNCHANGED <<inputs, globals, network, ips, startMode, strategy>>
    /\ UNCHANGED <<dpc, fallback, derrs, isPrimary, resultsClosed, drecv>>

\* A racer of parallelDialContext: its dialContext call returns.
RacerDial(i) ==
    /\ att[i] = "dialing"
    /\ att' = [att EXCEPT ![i] = "done"]
    /\ \E ok \in BOOLEAN :
          conn' = [conn EXCEPT ![i] = IF ok THEN "open" ELSE "failed"]
    /\ UNCHANGED <<closes, inputs, globals, callv, instv, dualv>>

\* Mutant: a racer whose successful result is received closes its
\* connection all the same.
ParallelRecvAndClose(p, i) ==
    /\ ikind[p] = "parallel"
    /\ ipc[p] = "run"
    /\ i \in Range(ilist[p])
    /\ att[i] = "done"
    /\ att' = [att EXCEPT ![i] = "sent"]
    /\ IF conn[i] # "failed"
       THEN /\ ierrs' = ierrs
            /\ conn' = [conn EXCEPT ![i] = "closed"]
            /\ closes' = [closes EXCEPT ![i] = @ + 1]
            /\ InstReturn(p, [conn |-> i, err |-> Nil])
       ELSE /\ ierrs' = [ierrs EXCEPT ![p] = Append(@, i)]
            /\ UNCHANGED <<conn, closes>>
            /\ IF Len(ierrs'[p]) = Len(ilist[p])
               THEN InstReturn(p, [conn |-> 0,
                                   err |-> IF Len(ierrs'[p]) > 0
                                           THEN Join(ierrs'[p])
                                           ELSE ErrDeadlineExceeded])
               ELSE InstContinue
    /\ UNCHANGED <<ikind, ilist, iattempts>>
    /\ UNCHANGED <<inputs, globals, network, ips, startMode, strategy>>
    /\ UNCHANGED <<dpc, fallback, derrs, isPrimary, resultsClosed, drecv>>


\* Mutant: a received error is put at the head of errs.
ParallelRecvPrepend(p, i) ==
    /\ ikind[p] = "parallel"
    /\ ipc[p] = "run"
    /\ i \in Range(ilist[p])
    /\ att[i] = "done"
    /\ att' = [att EXCEPT ![i] = "sent"]
    /\ IF conn[i] # "failed"
       THEN /\ ierrs' = ierrs
            /\ InstReturn(p, [conn |-> i, err |-> Nil])
       ELSE /\ ierrs' = [ierrs EXCEPT ![p] = <<i>> \o @]
            /\ IF Len(ierrs'[p]) = Len(ilist[p])
               THEN InstReturn(p, [conn |-> 0,
                                   err |-> IF Len(ierrs'[p]) > 0
                                           THEN Join(ierrs'[p])
                                           ELSE ErrDeadlineExceeded])
               ELSE InstContinue
    /\ UNCHANGED <<ikind, ilist, iattempts, conn, closes>>
    /\ UNCHANGED <<inputs, globals, network, ips, startMode, strategy>>
    /\ UNCHANGED <<dpc, fallback, derrs, isPrimary, resultsClosed, drecv>>

\* Mutant: the coordinator returns on the first result, failure included.
ParallelRecvFirstResult(p, i) ==
    /\ ikind[p] = "parallel"
    /\ ipc[p] = "run"
    /\ i \in Range(ilist[p])
    /\ att[i] = "done"
    /\ att' = [att EXCEPT ![i] = "sent"]
    /\ IF conn[i] # "failed"
       THEN /\ ierrs' = ierrs
            /\ InstReturn(p, [conn |-> i, err |-> Nil])
       ELSE /\ ierrs' = [ierrs EXCEPT ![p] = Append(@, i)]
            /\ InstReturn(p, [conn |-> 0, err |-> Join(ierrs'[p])])
    /\ UNCHANGED <<ikind, ilist, iattempts, conn, closes>>
    /\ UNCHANGED <<inputs, globals, network, ips, startMode, strategy>>
    /\ UNCHANGED <<dpc, fallback, derrs, isPrimary, resultsClosed, drecv>>

\* parallelDialContext: the coordinator receives racer i's result.
ParallelRecv(p, i) ==
    /\ ikind[p] = "parallel"
    /\ ipc[p] = "run"
    /\ i \in Range(ilist[p])
    /\ att[i] = "done"
    /\ att' = [att EXCEPT ![i] = "sent"]
    /\ IF conn[i] # "failed"
       THEN /\ ierrs' = ierrs
            /\ InstReturn(p, [conn |-> i, err |-> Nil])
       ELSE /\ ierrs' = [ierrs EXCEPT ![p] = Append(@, i)]
            /\ IF Len(ierrs'[p]) = Len(ilist[p])
               THEN InstReturn(p, [conn |-> 0,
                                   err |-> IF Len(ierrs'[p]) > 0
                                           THEN Join(ierrs'[p])
                                           ELSE ErrDeadlineExceeded])
               ELSE InstContinue
    /\ UNCHANGED <<ikind, ilist, iattempts, conn, closes>>
    /\ UNCHANGED <<inputs, globals, network, ips, startMode, strategy>>
    /\ UNCHANGED <<dpc, fallback, derrs, isPrimary, resultsClosed, drecv>>

\* Mutant: the racer that finds returned closed does not close its connection.
ParallelDropLeak(p, i) ==
    /\ ikind[p] = "parallel"
    /\ ipc[p] = "ret"
    /\ i \in Range(ilist[p])
    /\ att[i] = "done"
    /\ att' = [att EXCEPT ![i] = "dropped"]
    /\ UNCHANGED <<conn, closes>>
    /\ UNCHANGED <<inputs, globals, callv, instv, dualv>>

\* A racer of parallelDialContext finds returned closed: it closes its
\* connection if it has one.
ParallelDrop(p, i) ==
    /\ ikind[p] = "parallel"
    /\ ipc[p] = "ret"
    /\ i \in Range(ilist[p])
    /\ att[i] = "done"
    /\ att' = [att EXCEPT ![i] = "dropped"]
    /\ IF conn[i] # "failed"
       THEN /\ conn' = [conn EXCEPT ![i] = "closed"]
            /\ closes' = [closes EXCEPT ![i] = @ + 1]
       ELSE UNCHANGED <<conn, closes>>
    /\ UNCHANGED <<inputs, globals, callv, instv, dualv>>

----------------------------------------------------------------------------
\* dualStackDialContext.

GroupTag(g) == IF g = "g4" THEN 4 ELSE 6

\* Return of dualStackDialContext (and so of DialContext); the deferred
\* close(returned) takes effect with it.
DualReturn(r) ==
    /\ dpc' = "ret"
    /\ pc' = "done"
    /\ ret' = r

\* Mutant: a primary error is appended like a fallback error.
DualRecvAppendAll(g) ==
    /\ dpc = "run"
    /\ grp[g] = "done"
    /\ grp' = [grp EXCEPT ![g] = "sent"]
    /\ LET res == iret[g] IN
       IF res.err = Nil
       THEN IF isPrimary[g]
            THEN /\ DualReturn([conn |-> res.conn, err |-> Nil])
                 /\ UNCHANGED <<fallback, derrs>>
            ELSE /\ fallback' = res.conn
                 /\ UNCHANGED <<dpc, pc, ret, derrs>>
       ELSE /\ derrs' = Append(derrs, GroupTag(g))
            /\ UNCHANGED <<dpc, pc, ret, fallback>>
    /\ drecv' = Append(drecv, g)
    /\ UNCHANGED <<isPrimary, resultsClosed, gdone>>
    /\ UNCHANGED <<inputs, globals, network, ips, startMode, strategy>>
    /\ UNCHANGED <<instv, addrv>>

\* Mutant: a primary success that arrives while a fallback connection is
\* stored returns the stored fallback connection.
DualRecvKeepFallback(g) ==
    /\ dpc = "run"
    /\ grp[g] = "done"
    /\ grp' = [grp EXCEPT ![g] = "sent"]
    /\ LET res == iret[g] IN
       IF res.err = Nil
       THEN IF isPrimary[g]
            THEN /\ DualReturn([conn |-> IF fallback # 0 THEN fallback ELSE res.conn,
                                err |-> Nil])
                 /\ UNCHANGED <<fallback, derrs>>
            ELSE /\ fallback' = res.conn
                 /\ UNCHANGED <<dpc, pc, ret, derrs>>
       ELSE /\ derrs' = IF isPrimary[g]
                        THEN <<GroupTag(g)>> \o derrs
                        ELSE Append(derrs, GroupTag(g))
            /\ UNCHANGED <<dpc, pc, ret, fallback>>
    /\ drecv' = Append(drecv, g)
    /\ UNCHANGED <<isPrimary, resultsClosed, gdone>>
    /\ UNCHANGED <<inputs, globals, network, ips, startMode, strategy>>
    /\ UNCHANGED <<instv, addrv>>

\* Mutant: the error of a fallback racer is not accumulated.
DualRecvDropFallbackError(g) ==
    /\ dpc = "run"
    /\ grp[g] = "done"
    /\ grp' = [grp EXCEPT ![g] = "sent"]
    /\ LET res == iret[g] IN
       IF res.err = Nil
       THEN IF isPrimary[g]
            THEN /\ DualReturn([conn |-> res.conn, err |-> Nil])
                 /\ UNCHANGED <<fallback, derrs>>
            ELSE /\ fallback' = res.conn
                 /\ UNCHANGED <<dpc, pc, ret, derrs>>
       ELSE /\ derrs' = IF isPrimary[g] THEN <<GroupTag(g)>> \o derrs ELSE derrs
            /\ UNCHANGED <<dpc, pc, ret, fallback>>
    /\ drecv' = Append(drecv, g)
    /\ UNCHANGED <<isPrimary, resultsClosed, gdone>>
    /\ UNCHANGED <<inputs, globals, network, ips, startMode, strategy>>
    /\ UNCHANGED <<instv, addrv>>

\* The select loop receives the result of family racer g.
DualRecv(g) ==
    /\ dpc = "run"
    /\ grp[g] = "done"
    /\ grp' = [grp EXCEPT ![g] = "sent"]
    /\ LET res == iret[g] IN
       IF res.err = Nil
       THEN IF isPrimary[g]
            THEN /\ DualReturn([conn |-> res.conn, err |-> Nil])
                 /\ UNCHANGED <<fallback, derrs>>
            ELSE /\ fallback' = res.conn
                 /\ UNCHANGED <<dpc, pc, ret, derrs>>
       ELSE /\ derrs' = IF isPrimary[g]
                        THEN <<GroupTag(g)>> \o derrs
                        ELSE Append(derrs, GroupTag(g))
            /\ UNCHANGED <<dpc, pc, ret, fallback>>
    /\ drecv' = Append(drecv, g)
    /\ UNCHANGED <<isPrimary, resultsClosed, gdone>>
    /\ UNCHANGED <<inputs, globals, network, ips, startMode, strategy>>
    /\ UNCHANGED <<instv, addrv>>

\* Family racer g finds returned closed: it closes its connection if its
\* dialFn produced one.
DualDrop(g) ==
    /\ dpc = "ret"
    /\ grp[g] = "done"
    /\ grp' = [grp EXCEPT ![g] = "dropped"]
    /\ LET res == iret[g] IN
       IF res.conn # 0 /\ res.err = Nil
       THEN /\ conn' = [conn EXCEPT ![res.conn] = "closed"]
            /\ closes' = [closes EXCEPT ![res.conn] = @ + 1]
       ELSE UNCHANGED <<conn, closes>>
    /\ UNCHANGED <<att, dpc, fallback, derrs, isPrimary, resultsClosed, gdone,
                    drecv>>
    /\ UNCHANGED <<inputs, globals, callv, instv>>

\* Mutant: a family racer calls wg.Done() before its handoff.
WaitAndCloseBeforeHandoff ==
    /\ dpc # "idle"
    /\ ~resultsClosed
    /\ \A g \in Groups : grp[g] # "dialing"
    /\ resultsClosed' = TRUE
    /\ UNCHANGED <<dpc, fallback, derrs, grp, isPrimary, gdone, drecv>>
    /\ UNCHANGED <<inputs, globals, callv, instv, addrv>>


\* Mutant: a family racer that found returned closed is not counted as done
\* by the wait group.
WaitAndCloseDeliveredOnly ==
    /\ dpc # "idle"
    /\ ~resultsClosed
    /\ \A g \in Groups : grp[g] \in {"none", "sent"}
    /\ resultsClosed' = TRUE
    /\ UNCHANGED <<dpc, fallback, derrs, grp, isPrimary, gdone, drecv>>
    /\ UNCHANGED <<inputs, globals, callv, instv, addrv>>


\* The goroutine behind wg.Wait(): every launched family racer is done.
WaitAndClose ==
    /\ dpc # "idle"
    /\ ~resultsClosed
    /\ \A g \in Groups : grp[g] \in {"none", "sent", "dropped"}
    /\ resultsClosed' = TRUE
    /\ UNCHANGED <<dpc, fallback, derrs, grp, isPrimary, gdone, drecv>>
    /\ UNCHANGED <<inputs, globals, callv, instv, addrv>>

\* Mutant: after the loop the stored fallback connection is not consulted.
DualRecvClosedNoFallback ==
    /\ dpc = "run"
    /\ resultsClosed
    /\ DualReturn([conn |-> 0, err |-> Join(derrs)])
    /\ UNCHANGED <<fallback, derrs, grp, isPrimary, resultsClosed, gdone, drecv>>
    /\ UNCHANGED <<inputs, globals, network, ips, startMode, strategy>>
    /\ UNCHANGED <<instv, addrv>>

\* The select loop finds results closed, leaves the loop and returns.
DualRecvClosed ==
    /\ dpc = "run"
    /\ resultsClosed
    /\ IF fallback # 0
       THEN DualReturn([conn |-> fallback, err |-> Nil])
       ELSE DualReturn([conn |-> 0, err |-> Join(derrs)])
    /\ UNCHANGED <<fallback, derrs, grp, isPrimary, resultsClosed, gdone, drecv>>
    /\ UNCHANGED <<inputs, globals, network, ips, startMode, strategy>>
    /\ UNCHANGED <<instv, addrv>>

\* Mutant: a tick never returns the stored fallback connection.
DualTickIgnored ==
    /\ dpc = "run"
    /\ UNCHANGED <<dpc, pc, ret>>
    /\ UNCHANGED <<fallback, derrs, grp, isPrimary, resultsClosed, gdone, drecv>>
    /\ UNCHANGED <<inputs, globals, network, ips, startMode, strategy>>
    /\ UNCHANGED <<instv, addrv>>


\* The select loop handles a tick of fallbackTicker.
DualTick ==
    /\ dpc = "run"
    /\ IF fallback # 0
       THEN DualReturn([conn |-> fallback, err |-> Nil])
       ELSE UNCHANGED <<dpc, pc, ret>>
    /\ UNCHANGED <<fallback, derrs, grp, isPrimary, resultsClosed, gdone, drecv>>
    /\ UNCHANGED <<inputs, globals, network, ips, startMode, strategy>>
    /\ UNCHANGED <<instv, addrv>>

----------------------------------------------------------------------------
Next ==
    \/ \E b \in BOOLEAN : SetTcpConcurrent(b)
    \/ ApplyOptions
    \/ ParseAddr
    \/ Dispatch
    \/ \E p \in Insts : SerialDialContext(p)
    \/ \E i \in Addrs : RacerDial(i)
    \/ \E p \in Insts, i \in Addrs : ParallelRecv(p, i)
    \/ \E p \in Insts, i \in Addrs : ParallelDrop(p, i)
    \/ \E g \in Groups : DualRecv(g)
    \/ \E g \in Groups : DualDrop(g)
    \/ WaitAndClose
    \/ DualRecvClosed
    \/ DualTick

Spec == Init /\ [][Next]_vars

\* fallbackTicker fires every fallbackTimeout for as long as the select loop
\* runs, so a tick that would return the stored fallback connection is
\* eventually handled.  Nothing is assumed of the connect attempts.
TickFairSpec == Spec /\ WF_vars(DualTick)

\* Every connect attempt eventually completes, and every goroutine that can
\* take a step is eventually scheduled: a racer whose send can be received
\* or whose select sees returned closed, a coordinator whose receive has a
\* sender or a closed channel, the goroutine behind wg.Wait().
RacerFairSpec ==
    /\ Spec
    /\ \A i \in Addrs : WF_vars(RacerDial(i))
    /\ \A p \in Insts : WF_vars(SerialDialContext(p))
    /\ \A p \in Insts, i \in Addrs :
          WF_vars(ParallelRecv(p, i)) /\ WF_vars(ParallelDrop(p, i))
    /\ \A g \in Groups : WF_vars(DualRecv(g)) /\ WF_vars(DualDrop(g))
    /\ WF_vars(WaitAndClose)
    /\ WF_vars(DualRecvClosed)

----------------------------------------------------------------------------
\* Vocabulary of the properties.

ValidNetworks == {"tcp", "tcp4", "tcp6", "udp", "udp4", "udp6"}

Mode(concurrent) == IF concurrent THEN "concurrent" ELSE "serial"

IsDual == strategy \in {"dualSerial", "dualParallel"}

\* Address i's connect succeeded (its connection may have been closed since).
Succeeded(i) == conn[i] \in {"open", "closed"}

\* Every racer task of the call has finished: no connect is pending, no
\* result waits to be handed off, no family racer is still in its dialFn.
RacersFinished ==
    /\ \A i \in Addrs : att[i] \notin {"dialing", "done"}
    /\ \A g \in Groups : grp[g] \notin {"dialing", "done"}
    /\ \A p \in Insts : ipc[p] # "run"

\* Exactly one of a connection and an error.
OneOf(r) == (r.conn # 0) # (r.err # Nil)

\* The family racer that is primary / fallback under a stated preference.
PrimaryGroup == IF prefer = 4 THEN "g4" ELSE "g6"

FallbackGroup == IF prefer = 4 THEN "g6" ELSE "g4"

\* Family racer g's dialFn has returned a connection / an error.
GroupSucceeded(g) == ipc[g] = "ret" /\ iret[g].err = Nil

GroupFailed(g) == ipc[g] = "ret" /\ iret[g].err # Nil

----------------------------------------------------------------------------
\* C1: in dualStackDialContext, once the call has returned and every racer
\* task has finished, every connection opened during the call other than
\* the one returned to the caller has been closed.
C1_LosersClosed ==
    (IsDual /\ pc = "done" /\ RacersFinished) =>
        \A i \in Addrs : conn[i] = "open" => ret.conn = i

\* C2: in parallelDialContext, an attempt that succeeded, has completed its
\* handoff and is not the one returned has had its connection closed exactly
\* once; no connection is ever closed twice.
C2_ParallelLosersClosedOnce ==
    \A p \in Insts : ikind[p] = "parallel" =>
        \A i \in Range(ilist[p]) :
            /\ closes[i] <= 1
            /\ ( /\ att[i] \in {"sent", "dropped"}
                 /\ Succeeded(i)
                 /\ ~(ipc[p] = "ret" /\ iret[p].conn = i) )
               => (closes[i] = 1 /\ conn[i] = "closed")

\* A racer of a parallelDialContext that returned another connection has
\* dropped and closed its own.
C2_Witness ==
    \E p \in Insts : \E i \in Range(ilist[p]) :
        /\ ikind[p] = "parallel" /\ ipc[p] = "ret"
        /\ iret[p].conn # 0 /\ iret[p].conn # i
        /\ att[i] = "dropped" /\ closes[i] = 1

\* C3: parallelDialContext returns the connection of the first successful
\* result its coordinator receives (every result received before it is a
\* failure), and returns an error only when all len(ips) attempts failed.
C3_ParallelFirstSuccess ==
    \A p \in Insts : (ikind[p] = "parallel" /\ ipc[p] = "ret") =>
        LET r == iret[p] IN
        /\ r.err # Nil =>
              /\ r.conn = 0
              /\ \A i \in Range(ilist[p]) : att[i] = "sent" /\ conn[i] = "failed"
        /\ r.err = Nil =>
              /\ r.conn \in Range(ilist[p])
              /\ att[r.conn] = "sent" /\ Succeeded(r.conn)
              /\ \A j \in Range(ilist[p]) \ {r.conn} :
                    att[j] = "sent" => (conn[j] = "failed" /\ j \in Range(ierrs[p]))

\* A parallelDialContext returned a connection after receiving a failure.
C3_Witness ==
    \E p \in Insts :
        /\ ikind[p] = "parallel" /\ ipc[p] = "ret"
        /\ iret[p].conn # 0 /\ Len(ierrs[p]) >= 1

\* C4 as stated: under a preference, with both families present, if the
\* fallback family's dial succeeds first and the primary family's dial then
\* succeeds before the call returns at a tick, the call returns the primary
\* connection.
C4_PrimarySuccessBeforeTickWins ==
    [][ ( /\ IsDual /\ prefer \in {4, 6}
          /\ gdone = <<FallbackGroup, PrimaryGroup>>
          /\ GroupSucceeded(FallbackGroup) /\ GroupSucceeded(PrimaryGroup)
          /\ dpc = "run" /\ dpc' = "ret" )
        => ret' = [conn |-> iret[PrimaryGroup].conn, err |-> Nil] ]_vars

\* C4 amended: under a preference, a primary success that the coordinator
\* receives is what the call returns, also when a fallback success arrived
\* earlier and is stored.
C4_PrimaryReceivedWins ==
    \A g \in Groups :
        ( /\ IsDual /\ prefer \in {4, 6}
          /\ isPrimary[g] /\ grp[g] = "sent" /\ GroupSucceeded(g) )
        => ( /\ pc = "done"
             /\ ret = [conn |-> iret[g].conn, err |-> Nil] )

\* The fallback family succeeded first and was stored, the primary family
\* succeeded afterwards, was received, and its connection was returned.
C4_Witness ==
    /\ IsDual /\ prefer \in {4, 6}
    /\ gdone = <<FallbackGroup, PrimaryGroup>>
    /\ fallback # 0
    /\ grp[PrimaryGroup] = "sent"
    /\ pc = "done"
    /\ ret.conn = iret[PrimaryGroup].conn
    /\ ret.conn # 0

\* C5: under a preference, when the primary family fails entirely and the
\* fallback family succeeds, the call returns the fallback family's
\* connection, never an error; and once both results are delivered and
\* results is closed, the fallback connection is the stored one that the
\* code after the loop returns, with no tick needed.
C5_FallbackAfterPrimaryFails ==
    ( /\ IsDual /\ prefer \in {4, 6}
      /\ GroupFailed(PrimaryGroup) /\ GroupSucceeded(FallbackGroup) )
    => /\ pc = "done" => ret = [conn |-> iret[FallbackGroup].conn, err |-> Nil]
       /\ (dpc = "run" /\ resultsClosed) =>
             (fallback = iret[FallbackGroup].conn /\ ENABLED DualRecvClosed)

\* The primary family failed, both results are delivered and results is
\* closed while the coordinator is still in its loop, holding the fallback
\* connection.
C5_Witness ==
    /\ IsDual /\ prefer = 6
    /\ GroupFailed("g6") /\ GroupSucceeded("g4")
    /\ grp["g6"] = "sent" /\ grp["g4"] = "sent"
    /\ resultsClosed
    /\ dpc = "run"
    /\ fallback = iret["g4"].conn

\* C6: a call that reached a strategy fails with ErrorNoIpAddress exactly
\* when the candidate list handed to it is empty; no per-family dial, whose
\* list is nonempty, fails with it.
C6_NoAddressIffEmpty ==
    /\ (pc = "done" /\ strategy \notin {"none", "invalid"}) =>
          ((ret.err = ErrorNoIpAddress) <=> (Len(ips) = 0))
    /\ \A p \in Insts : ipc[p] = "ret" =>
          (Len(ilist[p]) # 0 /\ iret[p].err # ErrorNoIpAddress)

\* A dual-stack call was handed an empty list and failed with ErrorNoIpAddress.
C6_Witness ==
    /\ pc = "done" /\ IsDual
    /\ Len(ips) = 0
    /\ ret = [conn |-> 0, err |-> ErrorNoIpAddress]

\* C7: a call with a network token outside the valid set makes no connect
\* attempt and fails with ErrorInvalidedNetworkStack.
C7_InvalidTokenRejected ==
    token \notin ValidNetworks =>
        /\ \A i \in Addrs : att[i] = "idle"
        /\ pc = "done" => ret = [conn |-> 0, err |-> ErrorInvalidedNetworkStack]

C9_SerialInOrder ==
    \A p \in Insts : ikind[p] = "serial" =>
        LET n == Len(iattempts[p]) IN
        /\ n <= Len(ilist[p])
        /\ iattempts[p] = SubSeq(ilist[p], 1, n)
        /\ \A k \in 1..Len(ilist[p]) :
              /\ k < n => conn[ilist[p][k]] = "failed"
              /\ k > n => (att[ilist[p][k]] = "idle" /\ conn[ilist[p][k]] = "none")
        /\ (n > 0 /\ Succeeded(iattempts[p][n])) =>
              (ipc[p] = "ret" /\ iret[p] = [conn |-> iattempts[p][n], err |-> Nil])
        /\ (ipc[p] = "ret" /\ iret[p].err = Nil) =>
              (n > 0 /\ iret[p].conn = iattempts[p][n])

\* A serialDialContext over several addresses returned the first address's
\* connection after a single attempt.
C9_Witness ==
    \E p \in Insts :
        /\ ikind[p] = "serial" /\ ipc[p] = "ret"
        /\ Len(ilist[p]) >= 2
        /\ iattempts[p] = <<ilist[p][1]>>
        /\ iret[p].conn = ilist[p][1]

\* C10: every return of serialDialContext, parallelDialContext and
\* dualStackDialContext carries exactly one of a connection and an error.
C10_ConnXorError ==
    /\ \A p \in Insts : ipc[p] = "ret" => OneOf(iret[p])
    /\ (pc = "done" /\ strategy \notin {"none", "invalid"}) => OneOf(ret)

\* dualStackDialContext returned the joined error of both families.
C10_Witness ==
    /\ IsDual /\ dpc = "ret"
    /\ ret.conn = 0
    /\ ret.err.kind = "join"
    /\ Len(ret.err.parts) = 2

\* The family racer whose error is tagged t.
TagGroup(t) == IF t = 4 THEN "g4" ELSE "g6"

\* C11: in the error list of dualStackDialContext no fallback-group error
\* stands before a primary-group error, whatever order the results were
\* received in, and a failing call returns the join of that list.
C11_PrimaryErrorsFirst ==
    /\ \A k, l \in 1..Len(derrs) :
          (k < l) => ~(~isPrimary[TagGroup(derrs[k])] /\ isPrimary[TagGroup(derrs[l])])
    /\ (dpc = "ret" /\ ret.err # Nil) => ret.err = Join(derrs)

\* Under a preference the fallback family's error was received first, the
\* primary family's error second, and the call failed with the primary
\* error ahead of the fallback error.
C11_Witness ==
    /\ IsDual /\ prefer \in {4, 6}
    /\ drecv = <<FallbackGroup, PrimaryGroup>>
    /\ dpc = "ret"
    /\ ret.err.kind = "join"
    /\ ret.err.parts = <<GroupTag(PrimaryGroup), GroupTag(FallbackGroup)>>

\* Family racers that were started, i.e. whose family has an address.
StartedGroups == {g \in Groups : Len(ilist[g]) # 0}

\* C12: a failing race reports every attempt's error exactly once.  A
\* failing serialDialContext returns the join of one error per address of
\* its list, in list order; a failing parallelDialContext returns the join
\* of one error per address of its list, each error having been put behind
\* the ones received before it; a failing dualStackDialContext returns the
\* join of one error per started family racer, each being the error that
\* racer's dial function returned.
C12_NoErrorDropped ==
    /\ [](\A p \in Insts : (ipc[p] = "ret" /\ iret[p].err # Nil) =>
             /\ iret[p].err = Join(ierrs[p])
             /\ Len(ierrs[p]) = Len(ilist[p])
             /\ Range(ierrs[p]) = Range(ilist[p])
             /\ \A i \in Range(ilist[p]) : conn[i] = "failed"
             /\ ikind[p] = "serial" => ierrs[p] = ilist[p])
    /\ [][\A p \in Insts, i \in Addrs :
             ( /\ ikind[p] = "parallel" /\ i \in Range(ilist[p])
               /\ att[i] = "done" /\ att'[i] = "sent" /\ conn[i] = "failed" )
             => ierrs'[p] = Append(ierrs[p], i)]_vars
    /\ []((IsDual /\ dpc = "ret" /\ ret.err # Nil) =>
             /\ ret.err = Join(derrs)
             /\ Len(derrs) = Cardinality(StartedGroups)
             /\ {TagGroup(derrs[k]) : k \in 1..Len(derrs)} = StartedGroups
             /\ \A g \in StartedGroups : grp[g] = "sent" /\ GroupFailed(g))

\* A parallelDialContext over two addresses failed after receiving the
\* second address's error before the first address's.
C12_Witness ==
    \E p \in Insts :
        /\ ikind[p] = "parallel" /\ ipc[p] = "ret"
        /\ Len(ilist[p]) = 2
        /\ iret[p].err = Join(<<ilist[p][2], ilist[p][1]>>)

\* C13: in a dual-stack dial without a preference both family racers are
\* primary and nothing is ever stored as fallback; a success the select loop
\* receives, of either family, is returned in the step that receives it,
\* every result received before it being a failure.  In concurrent mode
\* such a dial does not reach dualStackDialContext at all.
C13_NoPreferenceFirstSuccess ==
    (prefer = 0 /\ network \in {"tcp", "udp"} /\ strategy # "none") =>
        /\ fallback = 0
        /\ strategy = "parallel" => dpc = "idle"
        /\ dpc # "idle" =>
              /\ strategy = "dualSerial"
              /\ \A g \in Groups : isPrimary[g]
              /\ \A k \in 1..Len(drecv) :
                    IF GroupSucceeded(drecv[k])
                    THEN /\ k = Len(drecv)
                         /\ pc = "done"
                         /\ ret = [conn |-> iret[drecv[k]].conn, err |-> Nil]
                    ELSE GroupFailed(drecv[k])

\* Without a preference both families' dials succeeded, IPv4's first; the
\* select loop received the IPv6 result first and returned its connection.
C13_Witness ==
    /\ prefer = 0 /\ IsDual
    /\ gdone = <<"g4", "g6">>
    /\ GroupSucceeded("g4") /\ GroupSucceeded("g6")
    /\ drecv = <<"g6">>
    /\ pc = "done"
    /\ ret = [conn |-> iret["g6"].conn, err |-> Nil]

C15_TickReturnsStoredFallback ==
    /\ [][DualTick =>
            IF fallback # 0
            THEN /\ dpc' = "ret" /\ pc' = "done"
                 /\ ret' = [conn |-> fallback, err |-> Nil]
            ELSE UNCHANGED vars]_vars
    /\ (dpc = "run" /\ fallback # 0)
          ~> ( /\ dpc = "ret" /\ pc = "done" /\ ret.err = Nil
               /\ \/ ret.conn = fallback
                  \/ \E g \in Groups :
                        /\ isPrimary[g] /\ grp[g] = "sent"
                        /\ ret.conn = iret[g].conn )

\* The call returned the stored fallback connection at a tick: the primary
\* family's dial has not completed and results is not closed.
C15_Witness ==
    /\ IsDual /\ prefer \in {4, 6}
    /\ dpc = "ret"
    /\ fallback # 0
    /\ ret = [conn |-> fallback, err |-> Nil]
    /\ grp[PrimaryGroup] = "dialing"
    /\ ~resultsClosed

\* The goroutine behind wg.Wait() has closed results and ended, if the call
\* started one.
WaiterFinished == dpc # "idle" => resultsClosed

\* C16: provided every connect attempt completes, a call that started its
\* racers returns, and every racer task and the task that closes results
\* then end and stay ended.  No racer is stuck in its handoff: a racer of
\* parallelDialContext or a family racer of dualStackDialContext that holds
\* a result can either have it received by its coordinator or see returned
\* closed.
C16_RacersTerminate ==
    /\ (pc = "racing") ~> [](pc = "done" /\ RacersFinished /\ WaiterFinished)
    /\ [](\A p \in Insts, i \in Addrs :
             (ikind[p] = "parallel" /\ i \in Range(ilist[p]) /\ att[i] = "done")
             => (ENABLED ParallelRecv(p, i) \/ ENABLED ParallelDrop(p, i)))
    /\ [](\A g \in Groups :
             grp[g] = "done" => (ENABLED DualRecv(g) \/ ENABLED DualDrop(g)))

\* dualStackDialContext returned the primary family's connection; the
\* fallback family's racer, whose dial succeeded later, saw returned closed
\* and closed its connection, and results has been closed after it.
C16_Witness ==
    /\ IsDual /\ prefer \in {4, 6}
    /\ pc = "done"
    /\ ret.conn = iret[PrimaryGroup].conn /\ ret.conn # 0
    /\ grp[FallbackGroup] = "dropped"
    /\ GroupSucceeded(FallbackGroup)
    /\ conn[iret[FallbackGroup].conn] = "closed"
    /\ RacersFinished
    /\ resultsClosed

\* The forced family's variant of a valid token.
EffectiveToken(t, forced) ==
    IF forced \notin {4, 6} THEN t
    ELSE IF t \in {"tcp", "tcp4", "tcp6"}
         THEN (IF forced = 4 THEN "tcp4" ELSE "tcp6")
         ELSE (IF forced = 4 THEN "udp4" ELSE "udp6")

\* A per-list dial function of the given kind is started on the whole list,
\* without a family split (or is about to fail on the empty list).
FlatStarted(kind) ==
    /\ dpc' = "idle"
    /\ \A g \in Groups : ikind'[g] = "none"
    /\ IF ips = <<>>
       THEN pc' = "done" /\ ikind'["top"] = "none"
       ELSE /\ pc' = "racing"
            /\ ikind'["top"] = kind
            /\ ilist'["top"] = Indices(ips)

\* dualStackDialContext is started with the given inner dial function: one
\* racer per nonempty family, each over that family's addresses.
SplitStarted(kind) ==
    /\ ikind'["top"] = "none"
    /\ IF ips = <<>>
       THEN pc' = "done" /\ dpc' = "idle"
       ELSE /\ pc' = "racing" /\ dpc' = "run"
            /\ \A g \in Groups :
                  LET own == {k \in 1..Len(ips) : ips[k] = GroupTag(g)} IN
                  /\ Range(ilist'[g]) = own
                  /\ ikind'[g] = IF own = {} THEN "none" ELSE kind

\* C17: for a valid requested token, the switch of DialContext sees the
\* token rewritten to the forced family's variant, and starts the dial
\* function given by that token, the mode in force and the preference:
\* single-family token, serial mode: serialDialContext on the list;
\* single-family token, concurrent mode: parallelDialContext on the list;
\* dual token, serial mode: dualStackDialContext with serialDialContext;
\* dual token, concurrent mode, preference 4 or 6: dualStackDialContext with
\* parallelDialContext; dual token, concurrent mode, no preference:
\* parallelDialContext on the whole list, unsplit.
C17_DispatchTable ==
    [][ (token \in ValidNetworks /\ pc = "dispatch" /\ pc' # "dispatch") =>
          LET eff == EffectiveToken(token, optNetwork)
              single == eff \in {"tcp4", "tcp6", "udp4", "udp6"}
          IN
          /\ network = eff
          /\ (single /\ ~tcpConcurrent) => FlatStarted("serial")
          /\ (single /\ tcpConcurrent) => FlatStarted("parallel")
          /\ (~single /\ ~tcpConcurrent) => SplitStarted("serial")
          /\ (~single /\ tcpConcurrent /\ prefer \in {4, 6}) => SplitStarted("parallel")
          /\ (~single /\ tcpConcurrent /\ prefer \notin {4, 6}) => FlatStarted("parallel")
      ]_vars

\* A "tcp" call without a preference, dispatched in concurrent mode over an
\* IPv4 and an IPv6 address, runs one parallelDialContext over both.
C17_Witness ==
    /\ token = "tcp" /\ optNetwork = 0 /\ prefer = 0
    /\ tcpConcurrent
    /\ pc = "racing"
    /\ Range(ips) = {4, 6}
    /\ ikind["top"] = "parallel"
    /\ ilist["top"] = Indices(ips)
    /\ dpc = "idle"

\* Number of racer tasks that found returned closed while holding the
\* connection to address i: the racer of parallelDialContext that dialled
\* it, and the family racer whose dial function returned it.
DropsOf(i) ==
    (IF att[i] = "dropped" /\ conn[i] # "failed" THEN 1 ELSE 0)
    + (IF \E g \in Groups : grp[g] = "dropped" /\ iret[g] = [conn |-> i, err |-> Nil]
       THEN 1 ELSE 0)

\* C18: the connection DialContext returns is open and was never closed.
\* A connection is closed only by a racer task that found returned closed
\* while holding it, and by at most one: a racer whose result was received
\* by its coordinator has not closed it, and no coordinator closes what it
\* returns.
C18_ReturnedNeverClosed ==
    /\ (pc = "done" /\ ret.conn # 0) =>
          (conn[ret.conn] = "open" /\ closes[ret.conn] = 0)
    /\ \A i \in Addrs :
          /\ closes[i] = DropsOf(i)
          /\ closes[i] <= 1
          /\ (conn[i] = "closed") <=> (closes[i] = 1)
    /\ \A g \in Groups :
          (grp[g] = "sent" /\ GroupSucceeded(g)) => closes[iret[g].conn] = 0
    /\ \A p \in Insts :
          (ipc[p] = "ret" /\ iret[p].conn # 0 /\ closes[iret[p].conn] = 1)
          => (p \in Groups /\ grp[p] = "dropped")

\* Both families' parallelDialContext returned a connection; the primary
\* one was received and returned to the caller and is open, the other was
\* closed by its family racer, which found returned closed.
C18_Witness ==
    /\ strategy = "dualParallel"
    /\ pc = "done" /\ ret.conn # 0
    /\ conn[ret.conn] = "open"
    /\ grp[PrimaryGroup] = "sent"
    /\ grp[FallbackGroup] = "dropped"
    /\ GroupSucceeded(FallbackGroup)
    /\ att[iret[FallbackGroup].conn] = "sent"
    /\ closes[iret[FallbackGroup].conn] = 1

\* C19: when results is closed, every started family racer has delivered
\* its result or found returned closed, so none is left to send on the
\* closed channel; and the select loop receives from started racers only,
\* at most once from each.
C19_CloseAfterHandoffs ==
    /\ resultsClosed =>
          /\ \A g \in StartedGroups : grp[g] \in {"sent", "dropped"}
          /\ \A g \in Groups \ StartedGroups : grp[g] = "none"
    /\ Range(drecv) \subseteq StartedGroups
    /\ \A k, l \in 1..Len(drecv) : drecv[k] = drecv[l] => k = l
    /\ \A g \in Groups : (grp[g] = "sent") <=> (g \in Range(drecv))

\* Both families were started; one racer's result was received, the other
\* racer found returned closed, and results was closed after both.
C19_Witness ==
    /\ StartedGroups = Groups
    /\ resultsClosed
    /\ Len(drecv) = 1
    /\ grp[drecv[1]] = "sent"
    /\ \E g \in Groups : grp[g] = "dropped"

\* Positions in the receive order that hold a fallback racer's success.
FallbackSuccesses ==
    {k \in 1..Len(drecv) : ~isPrimary[drecv[k]] /\ GroupSucceeded(drecv[k])}

\* C20: in a running dualStackDialContext at most one family racer is not
\* primary, and none unless the preference is 4 or 6; the select loop
\* receives at most one fallback success, which is the stored fallback
\* connection; and fallback is only ever assigned while it is nil.
C20_SingleFallbackSuccess ==
    /\ [](dpc # "idle" =>
             /\ isPrimary["g4"] \/ isPrimary["g6"]
             /\ prefer \notin {4, 6} => (isPrimary["g4"] /\ isPrimary["g6"])
             /\ Cardinality(FallbackSuccesses) <= 1
             /\ \A k \in FallbackSuccesses : fallback = iret[drecv[k]].conn
             /\ FallbackSuccesses = {} => fallback = 0)
    /\ [][fallback' # fallback => fallback = 0]_vars

\* Under preference 4 with both families started, the IPv6 success was
\* received and stored, and the IPv4 failure received after it left the
\* stored connection in place.
C20_Witness ==
    /\ IsDual /\ prefer = 4
    /\ drecv = <<"g6", "g4">>
    /\ GroupSucceeded("g6") /\ GroupFailed("g4")
    /\ fallback = iret["g6"].conn
    /\ conn[fallback] = "open"

====
